---- MODULE Spec2Model ----
(***************************************************************************)
(* Model of server.js (the Express backend with the Postgres store):       *)
(* the login-or-register handler POST /login and the memory-augmented      *)
(* chat handler POST /api/kozani-chat.  Every `await` of a handler is one  *)
(* action: JavaScript runs a handler without interruption between two      *)
(* awaits, and other handlers may run while one is suspended.              *)
(* The file holds an earlier, memory-less copy of the chat handler (lines   *)
(* 1-117); the model follows the later server (lines 119-423).  The store  *)
(* is modelled by what the SQL statements say: the tables carry no         *)
(* constraint that the code does not state, and created_at grows with      *)
(* every INSERT.                                                           *)
(***************************************************************************)
EXTENDS Integers, Sequences, FiniteSets, TLC

\* ---------------------------------------------------------------- bounds
\* handler invocations that may be in flight at once (one slot each)
NumSlots == 2
\* chat requests served in one behaviour
MaxRequests == 2
\* rows of the messages table at start-up (written by earlier runs)
MaxSeed == 10
\* login requests served in one behaviour
MaxLogins == 2

Slots == 1..NumSlots

\* ------------------------------------------------------- program constants
\* getRecentMessages(user_id, 8)
HistoryLimit == 8

\* ------------------------------------------------------------ JS values
\* `undefined` / `null`: an absent body field, an absent completion content
Undefined == "<undefined>"

\* a faulty variant of Falsy: a check against undefined only (`v === undefined`)
FalsyOnlyUndefined(v) == v = Undefined

\* `!v` for the values the model draws: undefined, null and "" are falsy
Falsy(v) == v \in {Undefined, ""}

\* `a ?? b`: b only when a is null or undefined (an empty string is kept)
Coalesce(a, b) == IF a = Undefined THEN b ELSE a

\* the `snippets` field of a body: absent, an array of snippets (their texts),
\* or a value that is no array, on which snippets.map throws
NoSnippets == [given |-> FALSE, isArray |-> FALSE, texts |-> <<>>]
SnippetArray(texts) == [given |-> TRUE, isArray |-> TRUE, texts |-> texts]
NotAnArray == [given |-> TRUE, isArray |-> FALSE, texts |-> <<>>]

EmptyQueryAnswer == "I didn't receive anything to respond to."
BackendErrorAnswer == "I'm sorry, something went wrong while thinking. Please try again a bit later."
FallbackAnswer == "I'm sorry, I'm struggling to respond right now."
ModelName == "llama-3.1-8b-instant"

\* ------------------------------------------------------------- the state
VARIABLES
    messages,       \* the messages table: a set of rows
    clock,          \* the store's clock: created_at of the latest row
    cpc,            \* per slot: where the chat handler is suspended
    creq,           \* per slot: the destructured request body
    groqMessages,   \* per slot: the turn sequence built for the generation call
    answer,         \* per slot: the reply extracted from the completion
    clog,           \* per slot: what console.error logged for the request in flight
    sent,           \* the latest chat response sent, with its request's log
    served,         \* chat requests accepted so far
    users,          \* the users table: a set of rows
    userSeq,        \* the users.id sequence
    lpc,            \* per slot: where the login handler is suspended
    lreq,           \* per slot: the destructured login body
    existingUser,   \* per slot: the row findUserByPhone returned
    passwordHash,   \* per slot: the hash createUser computed
    lsent,          \* the latest login response sent, with its request's log
    logins          \* login requests accepted so far

chatVars == <<messages, clock, cpc, creq, groqMessages, answer, clog, sent, served>>
loginVars == <<users, userSeq, lpc, lreq, existingUser, passwordHash, lsent, logins>>
vars == <<chatVars, loginVars>>

NoReq ==
    [query |-> Undefined, snippets |-> NoSnippets, language |-> Undefined,
     client |-> Undefined, user_id |-> Undefined]
NoResp == [status |-> 0]

\* ------------------------------------------------------ the messages table
\* rows left in the table by earlier runs of the server, oldest first
SeedRow(i) ==
    [user_id |-> IF i % 6 = 0 THEN "u2" ELSE "u1",
     role |-> IF i % 2 = 1 THEN "user" ELSE "assistant",
     content |-> "h" \o ToString(i),
     created_at |-> i]

\* INSERT INTO messages (user_id, role, content): created_at is the insert time
InsertMessage(rows, now, user_id, role, content) ==
    rows \cup {[user_id |-> user_id, role |-> role, content |-> content,
                created_at |-> now]}

\* a faulty variant of OrderByCreatedAtDesc: ORDER BY created_at ASC
OrderByCreatedAtAsc(rows) ==
    [i \in 1..Cardinality(rows) |->
        CHOOSE m \in rows :
            Cardinality({x \in rows : x.created_at < m.created_at}) = i - 1]

\* ORDER BY created_at DESC: the i-th row has i - 1 rows newer than it
OrderByCreatedAtDesc(rows) ==
    [i \in 1..Cardinality(rows) |->
        CHOOSE m \in rows :
            Cardinality({x \in rows : x.created_at > m.created_at}) = i - 1]

\* LIMIT n
Limit(seq, n) == SubSeq(seq, 1, IF Len(seq) < n THEN Len(seq) ELSE n)

\* rows.reverse()
Reverse(seq) == [i \in 1..Len(seq) |-> seq[Len(seq) + 1 - i]]

\* SELECT role, content
RoleContent(seq) == [i \in 1..Len(seq) |-> [role |-> seq[i].role, content |-> seq[i].content]]

\* a faulty variant of GetRecentMessages: the rows are returned as fetched, newest first
GetRecentMessagesNewestFirst(rows, user_id, limit) ==
    RoleContent(Limit(OrderByCreatedAtDesc({m \in rows : m.user_id = user_id}), limit))

\* getRecentMessages(user_id, limit)
GetRecentMessages(rows, user_id, limit) ==
    Reverse(RoleContent(Limit(
        OrderByCreatedAtDesc({m \in rows : m.user_id = user_id}), limit)))

\* --------------------------------------------------------- prompt assembly
\* texts.join("\n\n")
RECURSIVE Join(_)
Join(texts) ==
    IF Len(texts) = 0 THEN ""
    ELSE IF Len(texts) = 1 THEN texts[1]
    ELSE texts[1] \o "\n\n" \o Join(Tail(texts))

\* const { snippets = [] } = req.body
Snippets(body) == IF body.snippets.given THEN body.snippets ELSE SnippetArray(<<>>)

\* grounding = snippets.map(s => s.text).join("\n\n")
Grounding(body) == Join(Snippets(body).texts)

\* the template literal: persona and rules, then the grounding block
SystemPrompt(grounding) == "You are Kozani [...] background context:\n\n" \o grounding

\* groqMessages: system turn, memory turns with their roles, the new utterance
BuildMessages(systemPrompt, memoryMessages, query) ==
    <<[role |-> "system", content |-> systemPrompt]>>
    \o [i \in 1..Len(memoryMessages) |->
            [role |-> memoryMessages[i].role, content |-> memoryMessages[i].content]]
    \o <<[role |-> "user", content |-> query]>>

\* --------------------------------------------------------------- responses
EmptyQueryResponse ==
    [status |-> 400, answer |-> EmptyQueryAnswer,
     safety |-> [ok |-> FALSE, flags |-> <<"empty_query">>],
     meta |-> [model |-> "none"]]

BackendErrorResponse ==
    [status |-> 500, answer |-> BackendErrorAnswer,
     safety |-> [ok |-> FALSE, flags |-> <<"backend_error">>],
     meta |-> [model |-> "none"]]

\* const { language = "en" } = req.body
Language(body) == IF body.language = Undefined THEN "en" ELSE body.language

ReplyResponse(ans, body) ==
    [status |-> 200, answer |-> ans,
     safety |-> [ok |-> TRUE, flags |-> <<>>],
     meta |-> [model |-> ModelName, provider |-> "groq",
               grounded |-> Len(Snippets(body).texts) > 0,
               language |-> Language(body), client |-> body.client]]

\* the response is sent and the handler returns: its locals are gone
Finish(r, response, logged) ==
    /\ cpc' = [cpc EXCEPT ![r] = "idle"]
    /\ sent' = [response |-> response, logged |-> logged]
    /\ clog' = [clog EXCEPT ![r] = {}]
    /\ creq' = [creq EXCEPT ![r] = NoReq]
    /\ groqMessages' = [groqMessages EXCEPT ![r] = <<>>]
    /\ answer' = [answer EXCEPT ![r] = Undefined]

\* a faulty variant of CatchChat: the error's message is sent to the caller
CatchChatLeaks(r, err) ==
    Finish(r, [BackendErrorResponse EXCEPT !.answer = err], clog[r] \cup {err})

\* catch (err): log it, answer 500 with the fixed apology
CatchChat(r, err) == Finish(r, BackendErrorResponse, clog[r] \cup {err})

\* a request is handled in the first slot that holds no handler in flight
FreeSlot(pc, r) ==
    /\ pc[r] = "idle"
    /\ \A o \in 1..(r - 1) : pc[o] # "idle"

\* ------------------------------------------------ POST /api/kozani-chat
\* the utterances a client may send as its k-th request: none, empty, or a text
Queries(k) == {Undefined, "", "q" \o ToString(k)}
UserIds == {Undefined, "u1"}
SnippetInputs == {NoSnippets, SnippetArray(<<>>), SnippetArray(<<"s1", "s2">>), NotAnArray}
\* language and client are only echoed in meta: one value of each is drawn
Languages == {Undefined}
Clients == {"app"}
Bodies(k) ==
    [query : Queries(k), snippets : SnippetInputs, language : Languages,
     client : Clients, user_id : UserIds]
\* the bodies that pass validation and reach the store and the generation service
ValidBodies(k) ==
    {b \in Bodies(k) : ~Falsy(b.query) /\ b.snippets = SnippetArray(<<"s1", "s2">>)}
\* completion.choices?.[0]?.message?.content
Contents == {Undefined, "", "a1"}

\* entry of the handler up to its first await
ChatRequest(r, body) ==
    /\ UNCHANGED loginVars
    /\ FreeSlot(cpc, r)
    /\ served < MaxRequests
    /\ served' = served + 1
    /\ UNCHANGED <<messages, clock>>
    /\ IF Falsy(body.query)
       THEN Finish(r, EmptyQueryResponse, {})
       ELSE IF ~Snippets(body).isArray
       THEN Finish(r, BackendErrorResponse, {"TypeError"})
       ELSE /\ creq' = [creq EXCEPT ![r] = body]
            /\ UNCHANGED <<answer, clog, sent>>
            /\ IF ~Falsy(body.user_id)
               THEN /\ cpc' = [cpc EXCEPT ![r] = "read"]
                    /\ groqMessages' = [groqMessages EXCEPT ![r] = <<>>]
               ELSE /\ cpc' = [cpc EXCEPT ![r] = "generate"]
                    /\ groqMessages' = [groqMessages EXCEPT ![r] =
                           BuildMessages(SystemPrompt(Grounding(body)),
                                         <<>>, body.query)]

\* a faulty variant of ReadHistory: a per-user lock, the read waits for the user's other chats
ReadHistorySerialized(r, dbOk) ==
    /\ UNCHANGED loginVars
    /\ cpc[r] = "read"
    /\ \A o \in Slots \ {r} : cpc[o] = "idle" \/ creq[o].user_id # creq[r].user_id
    /\ UNCHANGED <<messages, clock, served>>
    /\ IF dbOk
       THEN /\ groqMessages' = [groqMessages EXCEPT ![r] =
                   BuildMessages(SystemPrompt(Grounding(creq[r])),
                                 GetRecentMessages(messages, creq[r].user_id, HistoryLimit),
                                 creq[r].query)]
            /\ cpc' = [cpc EXCEPT ![r] = "generate"]
            /\ UNCHANGED <<creq, answer, clog, sent>>
       ELSE CatchChat(r, "DbError")

\* memoryMessages = await getRecentMessages(user_id, 8), then the prompt is built
ReadHistory(r, dbOk) ==
    /\ UNCHANGED loginVars
    /\ cpc[r] = "read"
    /\ UNCHANGED <<messages, clock, served>>
    /\ IF dbOk
       THEN /\ groqMessages' = [groqMessages EXCEPT ![r] =
                   BuildMessages(SystemPrompt(Grounding(creq[r])),
                                 GetRecentMessages(messages, creq[r].user_id, HistoryLimit),
                                 creq[r].query)]
            /\ cpc' = [cpc EXCEPT ![r] = "generate"]
            /\ UNCHANGED <<creq, answer, clog, sent>>
       ELSE CatchChat(r, "DbError")

\* completion = await groq.chat.completions.create(...); answer = content ?? fallback
Generate(r, groqOk, content) ==
    /\ UNCHANGED loginVars
    /\ cpc[r] = "generate"
    /\ UNCHANGED <<messages, clock, served>>
    /\ IF groqOk
       THEN LET ans == Coalesce(content, FallbackAnswer) IN
            IF ~Falsy(creq[r].user_id)
            THEN /\ answer' = [answer EXCEPT ![r] = ans]
                 /\ cpc' = [cpc EXCEPT ![r] = "save_user"]
                 /\ UNCHANGED <<creq, groqMessages, clog, sent>>
            ELSE Finish(r, ReplyResponse(ans, creq[r]), clog[r])
       ELSE CatchChat(r, "GroqError")

\* saveMessage: the INSERT, with its own try/catch that only logs
SaveMessage(r, role, content, dbOk) ==
    IF dbOk
    THEN /\ clock' = clock + 1
         /\ messages' = InsertMessage(messages, clock + 1, creq[r].user_id, role, content)
    ELSE UNCHANGED <<messages, clock>>

\* console.error("Error saving message:", err) in saveMessage's catch
SaveLog(r, role, dbOk) == IF dbOk THEN clog[r] ELSE clog[r] \cup {"save_" \o role}

\* a faulty variant of SaveUser: saveMessage without its try/catch, the error reaches the handler
SaveUserThrows(r, dbOk) ==
    /\ UNCHANGED loginVars
    /\ cpc[r] = "save_user"
    /\ SaveMessage(r, "user", creq[r].query, dbOk)
    /\ IF dbOk
       THEN /\ cpc' = [cpc EXCEPT ![r] = "save_assistant"]
            /\ UNCHANGED <<creq, groqMessages, answer, clog, sent>>
       ELSE CatchChat(r, "DbError")
    /\ UNCHANGED served

\* await saveMessage(user_id, "user", query)
SaveUser(r, dbOk) ==
    /\ UNCHANGED loginVars
    /\ cpc[r] = "save_user"
    /\ SaveMessage(r, "user", creq[r].query, dbOk)
    /\ clog' = [clog EXCEPT ![r] = SaveLog(r, "user", dbOk)]
    /\ cpc' = [cpc EXCEPT ![r] = "save_assistant"]
    /\ UNCHANGED <<creq, groqMessages, answer, sent, served>>

\* await saveMessage(user_id, "assistant", answer), then res.json(...)
SaveAssistant(r, dbOk) ==
    /\ UNCHANGED loginVars
    /\ cpc[r] = "save_assistant"
    /\ SaveMessage(r, "assistant", answer[r], dbOk)
    /\ Finish(r, ReplyResponse(answer[r], creq[r]), SaveLog(r, "assistant", dbOk))
    /\ UNCHANGED served

\* ------------------------------------------------------------ POST /login
NoLogin == [phone |-> Undefined, password |-> Undefined, name |-> Undefined]
NoHash == [salt |-> Undefined, digest |-> <<>>]
\* `null` from findUserByPhone (result.rows[0] || null)
NoUser == [id |-> 0, phone |-> Undefined, password_hash |-> NoHash, name |-> Undefined]

\* bcrypt.hash(password, 10): a fresh salt and the salted digest of the password
Hash(password, salt) == [salt |-> salt, digest |-> <<salt, password>>]

\* a faulty variant of Compare: the password is compared with an unsalted digest
CompareUnsalted(password, hash) == hash.digest = <<password>>

\* bcrypt.compare(password, hash): re-hash with the stored salt and compare
Compare(password, hash) == Hash(password, hash.salt) = hash

\* `name || null`
OrNull(v) == IF Falsy(v) THEN Undefined ELSE v

\* SELECT id, phone, password_hash, name FROM users WHERE phone = $1
SelectByPhone(rows, phone) == {u \in rows : u.phone = phone}

\* INSERT INTO users (phone, password_hash, name) VALUES ($1, $2, $3)
InsertUserRow(rows, id, phone, hash, name) ==
    rows \cup {[id |-> id, phone |-> phone, password_hash |-> hash, name |-> name]}

ValidationError == [status |-> 400, json |-> [error |-> "Phone and password are required."]]
AuthError == [status |-> 401, json |-> [error |-> "Invalid phone or password."]]
ServerError == [status |-> 500, json |-> [error |-> "Server error during login."]]
UserResponse(status, user, is_new) ==
    [status |-> status,
     json |-> [user_id |-> user.id, name |-> user.name, phone |-> user.phone,
               is_new |-> is_new]]

\* the response is sent and the handler returns: its locals are gone
FinishLogin(r, response, logged) ==
    /\ lpc' = [lpc EXCEPT ![r] = "idle"]
    /\ lsent' = [response |-> response, logged |-> logged]
    /\ lreq' = [lreq EXCEPT ![r] = NoLogin]
    /\ existingUser' = [existingUser EXCEPT ![r] = NoUser]
    /\ passwordHash' = [passwordHash EXCEPT ![r] = NoHash]

\* catch (err): log it, answer 500
CatchLogin(r, err) == FinishLogin(r, ServerError, {err})

Phones == {Undefined, "p1", "p2"}
Passwords == {Undefined, "", "pw1", "pw2"}
Names == {Undefined, "Ann"}
LoginBodies == [phone : Phones, password : Passwords, name : Names]
Salts == {"saltA", "saltB"}

\* a faulty variant of LoginRequest: the validation tests the phone alone
LoginRequestPhoneOnly(r, body) ==
    /\ UNCHANGED chatVars
    /\ FreeSlot(lpc, r)
    /\ logins < MaxLogins
    /\ logins' = logins + 1
    /\ UNCHANGED <<users, userSeq>>
    /\ IF Falsy(body.phone)
       THEN FinishLogin(r, ValidationError, {})
       ELSE /\ lpc' = [lpc EXCEPT ![r] = "find"]
            /\ lreq' = [lreq EXCEPT ![r] = body]
            /\ UNCHANGED <<existingUser, passwordHash, lsent>>

\* entry of the handler: validation, then findUserByPhone is awaited
LoginRequest(r, body) ==
    /\ UNCHANGED chatVars
    /\ FreeSlot(lpc, r)
    /\ logins < MaxLogins
    /\ logins' = logins + 1
    /\ UNCHANGED <<users, userSeq>>
    /\ IF Falsy(body.phone) \/ Falsy(body.password)
       THEN FinishLogin(r, ValidationError, {})
       ELSE /\ lpc' = [lpc EXCEPT ![r] = "find"]
            /\ lreq' = [lreq EXCEPT ![r] = body]
            /\ UNCHANGED <<existingUser, passwordHash, lsent>>

\* existingUser = await findUserByPhone(phone)
FindUser(r, dbOk, row) ==
    /\ UNCHANGED chatVars
    /\ lpc[r] = "find"
    /\ UNCHANGED <<users, userSeq, logins>>
    /\ IF dbOk
       THEN /\ row \in SelectByPhone(users, lreq[r].phone) \cup {NoUser}
            /\ row = NoUser <=> SelectByPhone(users, lreq[r].phone) = {}
            /\ existingUser' = [existingUser EXCEPT ![r] = row]
            /\ lpc' = [lpc EXCEPT ![r] = IF row = NoUser THEN "hash" ELSE "compare"]
            /\ UNCHANGED <<lreq, passwordHash, lsent>>
       ELSE /\ row = NoUser
            /\ CatchLogin(r, "DbError")

\* ok = await bcrypt.compare(password, existingUser.password_hash)
ComparePassword(r) ==
    /\ UNCHANGED chatVars
    /\ lpc[r] = "compare"
    /\ UNCHANGED <<users, userSeq, logins>>
    /\ IF Compare(lreq[r].password, existingUser[r].password_hash)
       THEN FinishLogin(r, UserResponse(200, existingUser[r], FALSE), {})
       ELSE FinishLogin(r, AuthError, {})

\* createUser: passwordHash = await bcrypt.hash(password, 10)
HashPassword(r, salt) ==
    /\ UNCHANGED chatVars
    /\ lpc[r] = "hash"
    /\ passwordHash' = [passwordHash EXCEPT ![r] = Hash(lreq[r].password, salt)]
    /\ lpc' = [lpc EXCEPT ![r] = "insert"]
    /\ UNCHANGED <<users, userSeq, lreq, existingUser, lsent, logins>>

\* createUser: the INSERT ... RETURNING, then res.status(201)
InsertUser(r, dbOk) ==
    /\ UNCHANGED chatVars
    /\ lpc[r] = "insert"
    /\ UNCHANGED logins
    /\ IF dbOk
       THEN LET user == [id |-> userSeq + 1, phone |-> lreq[r].phone,
                         password_hash |-> passwordHash[r],
                         name |-> OrNull(lreq[r].name)]
            IN  /\ userSeq' = userSeq + 1
                /\ users' = InsertUserRow(users, user.id, user.phone,
                                          user.password_hash, user.name)
                /\ FinishLogin(r, UserResponse(201, user, TRUE), {})
       ELSE /\ UNCHANGED <<users, userSeq>>
            /\ CatchLogin(r, "DbError")

\* no other login handler is in flight
LoginQuiet(r) == \A o \in Slots \ {r} : lpc[o] = "idle"

\* no other chat handler is in flight
ChatQuiet(r) == \A o \in Slots \ {r} : cpc[o] = "idle"

Init ==
    /\ \E n \in {0, MaxSeed - 1, MaxSeed} :
          /\ messages = {SeedRow(i) : i \in 1..n}
          /\ clock = n
    /\ cpc = [r \in Slots |-> "idle"]
    /\ creq = [r \in Slots |-> NoReq]
    /\ groqMessages = [r \in Slots |-> <<>>]
    /\ answer = [r \in Slots |-> Undefined]
    /\ clog = [r \in Slots |-> {}]
    /\ sent = [response |-> NoResp, logged |-> {}]
    /\ served = 0
    /\ users = {}
    /\ userSeq = 0
    /\ lpc = [r \in Slots |-> "idle"]
    /\ lreq = [r \in Slots |-> NoLogin]
    /\ existingUser = [r \in Slots |-> NoUser]
    /\ passwordHash = [r \in Slots |-> NoHash]
    /\ lsent = [response |-> NoResp, logged |-> {}]
    /\ logins = 0

\* the login handlers do not touch the messages table: it starts empty
InitLogin == Init /\ messages = {}

\* chat requests with a well-formed body handled concurrently
NextChat ==
    \/ \E r \in Slots, body \in ValidBodies(served + 1) : ChatRequest(r, body)
    \/ \E r \in Slots, dbOk \in BOOLEAN : ReadHistory(r, dbOk)
    \/ \E r \in Slots, groqOk \in BOOLEAN, content \in Contents : Generate(r, groqOk, content)
    \/ \E r \in Slots, dbOk \in BOOLEAN : SaveUser(r, dbOk)
    \/ \E r \in Slots, dbOk \in BOOLEAN : SaveAssistant(r, dbOk)
SpecChat == Init /\ [][NextChat]_vars

\* chat requests with any body handled one at a time
NextChatSeq ==
    \/ \E r \in Slots, body \in Bodies(served + 1) : ChatQuiet(r) /\ ChatRequest(r, body)
    \/ \E r \in Slots, dbOk \in BOOLEAN : ChatQuiet(r) /\ ReadHistory(r, dbOk)
    \/ \E r \in Slots, groqOk \in BOOLEAN, content \in Contents :
            ChatQuiet(r) /\ Generate(r, groqOk, content)
    \/ \E r \in Slots, dbOk \in BOOLEAN : ChatQuiet(r) /\ SaveUser(r, dbOk)
    \/ \E r \in Slots, dbOk \in BOOLEAN : ChatQuiet(r) /\ SaveAssistant(r, dbOk)
SpecChatSeq == Init /\ [][NextChatSeq]_vars

\* login requests handled concurrently
NextLogin ==
    \/ \E r \in Slots, body \in LoginBodies : LoginRequest(r, body)
    \/ \E r \in Slots, dbOk \in BOOLEAN, row \in users \cup {NoUser} : FindUser(r, dbOk, row)
    \/ \E r \in Slots : ComparePassword(r)
    \/ \E r \in Slots, salt \in Salts : HashPassword(r, salt)
    \/ \E r \in Slots, dbOk \in BOOLEAN : InsertUser(r, dbOk)
SpecLogin == InitLogin /\ [][NextLogin]_vars

\* login requests handled one at a time
NextLoginSeq ==
    \/ \E r \in Slots, body \in LoginBodies : LoginQuiet(r) /\ LoginRequest(r, body)
    \/ \E r \in Slots, dbOk \in BOOLEAN, row \in users \cup {NoUser} :
            LoginQuiet(r) /\ FindUser(r, dbOk, row)
    \/ \E r \in Slots : LoginQuiet(r) /\ ComparePassword(r)
    \/ \E r \in Slots, salt \in Salts : LoginQuiet(r) /\ HashPassword(r, salt)
    \/ \E r \in Slots, dbOk \in BOOLEAN : LoginQuiet(r) /\ InsertUser(r, dbOk)
SpecLoginSeq == InitLogin /\ [][NextLoginSeq]_vars
\* ================================================================= claims

\* ---- C1.  A chat request whose query is empty or missing is answered 400
\* with the fixed apology, safety.ok = false and flags exactly
\* <<"empty_query">>; the handler returns at once (it awaits no history read,
\* no generation call, no append) and the messages table is unchanged.
C1_EmptyQueryRejected ==
    [][\A r \in Slots, body \in Bodies(served + 1) :
          (body.query \in {Undefined, ""} /\ ChatRequest(r, body)) =>
              /\ sent'.response.status = 400
              /\ sent'.response.answer = EmptyQueryAnswer
              /\ sent'.response.safety = [ok |-> FALSE, flags |-> <<"empty_query">>]
              /\ cpc'[r] = "idle"
              /\ groqMessages'[r] = <<>>
              /\ messages' = messages
              /\ clock' = clock]_vars

C1_Witness ==
    /\ sent.response.status = 400
    /\ served >= 1

\* ---- C2.  The turn sequence handed to the generation call is the system
\* instruction, then the user's most recent messages, at most 8, oldest first
\* and each with its stored role, then the new utterance with role "user";
\* without a user_id it is the system instruction and the new utterance.
UserRows(rows, u) == {m \in rows : m.user_id = u}
\* the n rows created last (all of them when there are fewer)
RECURSIVE MostRecent(_, _)
MostRecent(rows, n) ==
    IF Cardinality(rows) <= n THEN rows
    ELSE LET oldest == CHOOSE x \in rows : \A y \in rows : x.created_at <= y.created_at
         IN  MostRecent(rows \ {oldest}, n)
\* the turns of a set of rows in ascending creation time
RECURSIVE OldestFirst(_)
OldestFirst(rows) ==
    IF rows = {} THEN <<>>
    ELSE LET oldest == CHOOSE x \in rows : \A y \in rows : x.created_at <= y.created_at
         IN  <<[role |-> oldest.role, content |-> oldest.content]>>
             \o OldestFirst(rows \ {oldest})
PriorTurns(rows, body) ==
    IF body.user_id = Undefined THEN <<>>
    ELSE OldestFirst(MostRecent(UserRows(rows, body.user_id), 8))

C2_PromptChronological ==
    [][\A r \in Slots :
          (cpc[r] # "generate" /\ cpc'[r] = "generate") =>
              LET turns == groqMessages'[r]
                  prior == PriorTurns(messages, creq'[r])
              IN  /\ Len(turns) = Len(prior) + 2
                  /\ Len(prior) <= 8
                  /\ turns[1].role = "system"
                  /\ SubSeq(turns, 2, Len(turns) - 1) = prior
                  /\ turns[Len(turns)] = [role |-> "user", content |-> creq'[r].query]]_vars

\* a prompt built for a user who had more than 8 stored messages
C2_Witness ==
    \E r \in Slots :
        /\ cpc[r] = "generate"
        /\ Len(groqMessages[r]) = 10
        /\ Cardinality(UserRows(messages, creq[r].user_id)) > 8
        /\ groqMessages[r][2].content = "h2"

\* ---- C3.  Once the generation call has succeeded for a request with a
\* user_id, a failing append (of the user turn, the assistant turn or both)
\* changes nothing in the response: it is 200 with the generated reply,
\* safety.ok = true and no flags, never the 500 backend_error.
C3_AppendFailureSwallowed ==
    [][\A r \in Slots :
          /\ (cpc[r] = "save_user" /\ cpc'[r] # "save_user") =>
                 /\ cpc'[r] = "save_assistant"
                 /\ answer'[r] = answer[r]
                 /\ sent' = sent
          /\ (cpc[r] = "save_assistant" /\ cpc'[r] # "save_assistant") =>
                 /\ sent'.response.status = 200
                 /\ sent'.response.answer = answer[r]
                 /\ sent'.response.safety = [ok |-> TRUE, flags |-> <<>>]]_vars

\* a 200 reply of a request whose two appends both failed
C3_Witness ==
    /\ sent.response.status = 200
    /\ sent.response.answer = "a1"
    /\ sent.logged = {"save_user", "save_assistant"}

\* ---- C4.  A failing history read or generation call is answered 500 with
\* the fixed apology, safety.ok = false, flags exactly <<"backend_error">> and
\* nothing else; every chat response has one of three shapes: 400 empty_query,
\* 500 backend_error, 200 with safety.ok = true.
C4_Shapes ==
    \/ sent.response = NoResp
    \/ sent.response = [status |-> 400, answer |-> EmptyQueryAnswer,
                        safety |-> [ok |-> FALSE, flags |-> <<"empty_query">>],
                        meta |-> [model |-> "none"]]
    \/ sent.response = [status |-> 500, answer |-> BackendErrorAnswer,
                        safety |-> [ok |-> FALSE, flags |-> <<"backend_error">>],
                        meta |-> [model |-> "none"]]
    \/ /\ sent.response.status = 200
       /\ sent.response.safety = [ok |-> TRUE, flags |-> <<>>]

C4_BackendError ==
    /\ []C4_Shapes
    /\ [][\A r \in Slots :
            (ReadHistory(r, FALSE) \/ \E c \in Contents : Generate(r, FALSE, c)) =>
                /\ sent'.response =
                       [status |-> 500, answer |-> BackendErrorAnswer,
                        safety |-> [ok |-> FALSE, flags |-> <<"backend_error">>],
                        meta |-> [model |-> "none"]]
                /\ cpc'[r] = "idle"
                /\ messages' = messages]_vars

C4_Witness ==
    /\ sent.response.status = 500
    /\ sent.logged = {"GroqError"}

\* ---- C7.  With no other chat in flight, after a request with a user_id
\* whose generation and two appends succeeded, the user's recent history ends
\* with the request's utterance (role "user") and then its reply (role
\* "assistant").
C7_RoundTrip ==
    [][\A r \in Slots :
          (SaveAssistant(r, TRUE) /\ clog[r] = {}) =>
              LET h == GetRecentMessages(messages', creq[r].user_id, HistoryLimit)
              IN  /\ Len(h) >= 2
                  /\ h[Len(h) - 1] = [role |-> "user", content |-> creq[r].query]
                  /\ h[Len(h)] = [role |-> "assistant", content |-> answer[r]]]_vars

\* the first request of a behaviour has appended its two turns and replied
C7_Witness ==
    /\ sent.response.status = 200
    /\ sent.logged = {}
    /\ served = 1
    /\ \E u, a \in messages :
          /\ u.created_at = clock - 1 /\ u.role = "user" /\ u.content = "q1"
          /\ a.created_at = clock /\ a.role = "assistant"
          /\ a.content = sent.response.answer

\* ---- C8.  A completion without content (absent or empty) is replaced by
\* the fallback apology in the answer returned and in the assistant turn
\* stored: no 200 response carries an empty reply, no stored assistant turn
\* is empty.
C8_NoEmptyReply ==
    /\ sent.response.status = 200 => sent.response.answer # ""
    /\ \A m \in messages : m.role = "assistant" => m.content # ""
    /\ \A r \in Slots : cpc[r] \in {"save_user", "save_assistant"} => answer[r] # ""

\* ---- C9.  Chats of one user are not serialized: a suspended handler never
\* waits for another handler, so two requests of the same user can both read
\* the history before either appends, and one's user turn can be stored
\* between the other's user turn and assistant turn.
C9_NotSerialized ==
    \A r \in Slots :
        /\ cpc[r] = "read" => ENABLED (\E dbOk \in BOOLEAN : ReadHistory(r, dbOk))
        /\ cpc[r] = "save_user" => ENABLED (\E dbOk \in BOOLEAN : SaveUser(r, dbOk))
        /\ cpc[r] = "save_assistant" => ENABLED (\E dbOk \in BOOLEAN : SaveAssistant(r, dbOk))

\* the table started empty; request 1 (utterance q1) has finished, request 2
\* (utterance q2) read an empty history and has stored its user turn between
\* the two turns of request 1
C9_Witness ==
    \E r \in Slots :
        /\ cpc[r] = "save_assistant"
        /\ creq[r].query = "q2"
        /\ creq[r].user_id = "u1"
        /\ Len(groqMessages[r]) = 2
        /\ clock = 3
        /\ \E u1, u2, a1 \in messages :
              /\ u1.created_at = 1 /\ u1.role = "user" /\ u1.content = "q1"
              /\ u2.created_at = 2 /\ u2.role = "user" /\ u2.content = "q2"
              /\ a1.created_at = 3 /\ a1.role = "assistant"
              /\ {u1.user_id, u2.user_id, a1.user_id} = {"u1"}

\* ---- C6.  A login request without a phone or without a password is
\* answered 400 and the handler returns at once: it awaits neither
\* findUserByPhone nor createUser, and the users table is unchanged.
C6_MissingFieldsRejected ==
    [][\A r \in Slots, body \in LoginBodies :
          ((body.phone \in {Undefined, ""} \/ body.password \in {Undefined, ""})
           /\ LoginRequest(r, body)) =>
              /\ lsent'.response.status = 400
              /\ lpc'[r] = "idle"
              /\ users' = users
              /\ userSeq' = userSeq]_vars

C6_Witness ==
    /\ lsent.response.status = 400
    /\ logins >= 1

\* ---- C5.  Sequential logins carrying phone and password.
\* the password a stored credential was made from
StoredPassword(u) == u.password_hash.digest[2]
\* a login handler sends its response in this step
Responds(r) == lpc[r] # "idle" /\ lpc'[r] = "idle"
LoginOutcome(r) ==
    LET phone == lreq[r].phone
        known == {u \in users : u.phone = phone}
        resp == lsent'.response
    IN  IF known = {}
        THEN /\ resp.status = 201
             /\ resp.json.is_new = TRUE
             /\ resp.json.phone = phone
             /\ \E u \in users' \ users :
                   /\ users' = users \cup {u}
                   /\ u.phone = phone
                   /\ u.id = resp.json.user_id
                   /\ StoredPassword(u) = lreq[r].password
        ELSE IF \E u \in known : StoredPassword(u) = lreq[r].password
        THEN /\ resp.status = 200
             /\ resp.json.is_new = FALSE
             /\ resp.json.phone = phone
             /\ users' = users
        ELSE /\ resp.status = 401
             /\ users' = users

\* C5 as claimed: unknown phone -> one User created, 201, is_new = true;
\* known phone and matching password -> 200, is_new = false; known phone and
\* another password -> 401; in the last two cases the users are unchanged.
C5_LoginOutcomes ==
    [][\A r \in Slots : Responds(r) => LoginOutcome(r)]_vars

\* C5 as amended: the same, unless a store call made for the request fails,
\* and then the answer is 500.
C5_LoginOutcomesUnlessStoreFails ==
    [][\A r \in Slots :
          Responds(r) =>
              IF FindUser(r, FALSE, NoUser) \/ InsertUser(r, FALSE)
              THEN lsent'.response.status = 500
              ELSE LoginOutcome(r)]_vars

\* a known phone has logged in with its password
C5_Witness ==
    /\ lsent.response.status = 200
    /\ lsent.response.json.is_new = FALSE
    /\ \E u \in users : u.id = lsent.response.json.user_id

\* ---- C10.  Under any interleaving of logins the users table never holds
\* two rows with the same phone.
C10_UniquePhone ==
    \A u1, u2 \in users : u1.phone = u2.phone => u1 = u2

====
